---- MODULE Spec2Model ----
(***************************************************************************)
(* A model of the query-routing and context-preparation code of            *)
(* OctopusCopilot: the list sanitizer (domain/strings/sanitized_list.py),  *)
(* the context reducer and tool router (domain/handlers/                   *)
(* copilot_handler.py), the authorization gate (domain/security/           *)
(* security.py) and the runbook dashboard tool wrapper.                    *)
(*                                                                         *)
(* Every operation of the program is a function call.  An action of the    *)
(* model is one whole call: it draws the call's arguments from a bounded   *)
(* set, computes what the code computes, and records arguments and         *)
(* outcome in the variable of the component.  A Python string is a         *)
(* sequence of one-character strings, so that strip(), slicing, "in" and   *)
(* re.match are computed character by character.                           *)
(***************************************************************************)
EXTENDS Integers, Sequences, FiniteSets, TLC

VARIABLES
    san,    \* the last call of a sanitizer: function, arguments, outcome
    llm,    \* the last call of query_llm or handle_configuration_query, and its outcome
    rt,     \* the last call of handle_copilot_tools_execution and of its action
    gate,   \* the last call of is_admin_user, and the call counters of its collaborators
    red,    \* the last measurement of the context reducer, and the one before it
    acl,    \* the allow-list stored outside the gate, and the principals it let through
    store   \* the users and userlogin tables, and the call of each process to infrastructure/users.py

vars == <<san, llm, rt, gate, red, acl, store>>

----------------------------------------------------------------------------
(* Bounds of the model.                                                    *)

\* Longest generated string (sanitizer entries), in characters.
MaxStrLen == 2
\* Longest generated list handed to a sanitizer.
MaxListLen == 2

----------------------------------------------------------------------------
(* Python strings.                                                         *)

\* The characters str.strip() removes (the ones the model generates).
Whitespace == {" ", "\t", "\n"}

\* Characters in code point order, for the ranges of a character class.
CharOrder ==
    <<"0", "1", "2", "3", "4", "5", "6", "7", "8", "9",
      "A", "B", "C", "D", "E", "F", "G", "H", "I", "J", "K", "L", "M",
      "N", "O", "P", "Q", "R", "S", "T", "U", "V", "W", "X", "Y", "Z",
      "a", "b", "c", "d", "e", "f", "g", "h", "i", "j", "k", "l", "m",
      "n", "o", "p", "q", "r", "s", "t", "u", "v", "w", "x", "y", "z">>

RECURSIVE lstrip(_)
lstrip(s) ==
    IF s # <<>> /\ Head(s) \in Whitespace THEN lstrip(Tail(s)) ELSE s

RECURSIVE rstrip(_)
rstrip(s) ==
    IF s # <<>> /\ s[Len(s)] \in Whitespace
    THEN rstrip(SubSeq(s, 1, Len(s) - 1))
    ELSE s

\* str.strip(): the string without its leading and trailing whitespace.
strip(s) == rstrip(lstrip(s))

\* s.find(c, i): the first position >= i of character c in s, 0 when there is none.
RECURSIVE find_char(_, _, _)
find_char(s, c, i) ==
    IF i > Len(s) THEN 0
    ELSE IF s[i] = c THEN i
    ELSE find_char(s, c, i + 1)

\* The strings over alphabet of length at most n.
RECURSIVE StringsUpTo(_, _)
StringsUpTo(alphabet, n) ==
    IF n = 0 THEN {<<>>}
    ELSE LET shorter == StringsUpTo(alphabet, n - 1)
         IN  shorter \cup {Append(s, c) : s \in shorter, c \in alphabet}

----------------------------------------------------------------------------
(* re.match, for the regular expressions the sanitizers use: alternation   *)
(* at top level, literals, escaped literals, character classes with        *)
(* ranges, and a group of literals that may be followed by "?".            *)

\* The position of the first "|" of text at or after i that is outside of
\* escapes, classes and groups; 0 when there is none.
RECURSIVE re_first_bar(_, _, _)
re_first_bar(text, i, st) ==
    IF i > Len(text) THEN 0
    ELSE LET c == text[i]
         IN  IF st.esc
             THEN re_first_bar(text, i + 1, [st EXCEPT !.esc = FALSE])
             ELSE IF c = "\\"
             THEN re_first_bar(text, i + 1, [st EXCEPT !.esc = TRUE])
             ELSE IF st.cls
             THEN re_first_bar(text, i + 1, [st EXCEPT !.cls = (c # "]")])
             ELSE IF c = "["
             THEN re_first_bar(text, i + 1, [st EXCEPT !.cls = TRUE])
             ELSE IF c = "("
             THEN re_first_bar(text, i + 1, [st EXCEPT !.depth = @ + 1])
             ELSE IF c = ")"
             THEN re_first_bar(text, i + 1, [st EXCEPT !.depth = @ - 1])
             ELSE IF c = "|" /\ st.depth = 0
             THEN i
             ELSE re_first_bar(text, i + 1, st)

\* The alternatives of a pattern: its text split at the top-level "|".
RECURSIVE re_alternatives(_)
re_alternatives(text) ==
    LET k == re_first_bar(text, 1, [esc |-> FALSE, cls |-> FALSE, depth |-> 0])
    IN  IF k = 0
        THEN <<text>>
        ELSE <<SubSeq(text, 1, k - 1)>>
             \o re_alternatives(SubSeq(text, k + 1, Len(text)))

re_ord(c) == CHOOSE i \in 1..Len(CharOrder) : CharOrder[i] = c

\* The characters of a class "[...]", given the text between the brackets.
RECURSIVE re_class(_)
re_class(body) ==
    IF body = <<>> THEN {}
    ELSE IF Len(body) >= 3 /\ body[2] = "-"
    THEN {CharOrder[i] : i \in re_ord(body[1])..re_ord(body[3])}
         \cup re_class(SubSeq(body, 4, Len(body)))
    ELSE {Head(body)} \cup re_class(Tail(body))

\* Whether one alternative p matches a prefix of the string e.
RECURSIVE re_match_seq(_, _)
re_match_seq(p, e) ==
    IF p = <<>> THEN TRUE
    ELSE LET c == Head(p)
         IN  IF c = "\\"
             THEN /\ Len(p) >= 2
                  /\ e # <<>>
                  /\ Head(e) = p[2]
                  /\ re_match_seq(SubSeq(p, 3, Len(p)), Tail(e))
             ELSE IF c = "["
             THEN LET k == find_char(p, "]", 2)
                  IN  /\ k > 0
                      /\ e # <<>>
                      /\ Head(e) \in re_class(SubSeq(p, 2, k - 1))
                      /\ re_match_seq(SubSeq(p, k + 1, Len(p)), Tail(e))
             ELSE IF c = "("
             THEN LET k     == find_char(p, ")", 2)
                      inner == SubSeq(p, 2, k - 1)
                      opt   == k < Len(p) /\ p[k + 1] = "?"
                      rest  == SubSeq(p, IF opt THEN k + 2 ELSE k + 1, Len(p))
                  IN  /\ k > 0
                      /\ \/ re_match_seq(inner \o rest, e)
                         \/ opt /\ re_match_seq(rest, e)
             ELSE /\ e # <<>>
                  /\ Head(e) = c
                  /\ re_match_seq(Tail(p), Tail(e))

\* re.match(pattern, string) is not None: the pattern matches at the start of
\* the string (the match need not reach its end).
re_match(pattern, string) ==
    LET alts == re_alternatives(pattern)
    IN  \E i \in 1..Len(alts) : re_match_seq(alts[i], string)

----------------------------------------------------------------------------
(* domain/strings/sanitized_list.py                                        *)

\* A value of the ignored_re parameter: None, or the text of a pattern.
NoneRe == [some |-> FALSE, src |-> <<>>]
Re(text) == [some |-> TRUE, src |-> text]

RE_PROJECTS ==
    <<"\\", "*", "|", "P", "r", "o", "j", "e", "c", "t", " ",
      "[", "0", "-", "9", "A", "-", "Z", "]", "|",
      "M", "y", "P", "r", "o", "j", "e", "c", "t">>
RE_TENANTS ==
    <<"\\", "*", "|", "T", "e", "n", "a", "n", "t", " ",
      "[", "0", "-", "9", "A", "-", "Z", "]", "|",
      "M", "y", "T", "e", "n", "a", "n", "t">>
RE_ENVIRONMENTS ==
    <<"\\", "*", "|", "E", "n", "v", "i", "r", "o", "n", "m", "e", "n", "t", " ",
      "[", "0", "-", "9", "A", "-", "Z", "]", "|",
      "M", "y", "E", "n", "v", "i", "r", "o", "n", "m", "e", "n", "t">>
RE_TARGETS ==
    <<"\\", "*", "|", "M", "a", "c", "h", "i", "n", "e", " ",
      "[", "0", "-", "9", "A", "-", "Z", "]", "|",
      "T", "a", "r", "g", "e", "t", " ",
      "[", "0", "-", "9", "A", "-", "Z", "]", "|",
      "M", "y", "M", "a", "c", "h", "i", "n", "e", "|",
      "M", "y", "T", "a", "r", "g", "e", "t">>
RE_RUNBOOKS ==
    <<"\\", "*", "|", "R", "u", "n", "b", "o", "o", "k", " ",
      "[", "0", "-", "9", "A", "-", "Z", "]", "|",
      "M", "y", "R", "u", "n", "b", "o", "o", "k">>
RE_LIBRARY_VARIABLE_SETS ==
    <<"\\", "*", "|", "(", "L", "i", "b", "r", "a", "r", "y", " ", ")", "?",
      "V", "a", "r", "i", "a", "b", "l", "e", " ", "S", "e", "t", " ",
      "[", "0", "-", "9", "A", "-", "Z", "]", "|",
      "M", "y", "V", "a", "r", "i", "a", "b", "l", "e", "S", "e", "t", "|",
      "V", "a", "r", "i", "a", "b", "l", "e", "s">>

\* The arguments a caller may pass as input_list: a str, a list, None, an int.
StrArg(s)  == [kind |-> "str",  s |-> s,    l |-> <<>>, n |-> 0]
ListArg(l) == [kind |-> "list", s |-> <<>>, l |-> l,    n |-> 0]
NoneArg    == [kind |-> "none", s |-> <<>>, l |-> <<>>, n |-> 0]
IntArg(n)  == [kind |-> "int",  s |-> <<>>, l |-> <<>>, n |-> n]

\* The entries of a list: a str, or None.
StrEntry(s) == [isStr |-> TRUE,  s |-> s]
NoneEntry   == [isStr |-> FALSE, s |-> <<>>]

\* The outcome of a call: the list returned (tupled when it is wrapped in a
\* 1-tuple), or the exception raised.
Returned(val) == [status |-> "return", exc |-> "", tupled |-> FALSE, val |-> val]
Raised(exc)   == [status |-> "raise", exc |-> exc, tupled |-> FALSE, val |-> <<>>]
NoResult      == [status |-> "none", exc |-> "", tupled |-> FALSE, val |-> <<>>]

\* bool(input_list), for the "if input_list" of the list branch.
truthy(input_list) ==
    CASE input_list.kind = "str"  -> input_list.s # <<>>
      [] input_list.kind = "list" -> input_list.l # <<>>
      [] input_list.kind = "int"  -> input_list.n # 0
      [] OTHER                    -> FALSE

has_prefix(entry, ignored_re) ==
    IF ~ignored_re.some \/ ignored_re.src = <<>>
    THEN FALSE
    ELSE re_match(ignored_re.src, entry)

\* The list comprehension of sanitize_list over a list of str entries.
RECURSIVE sanitize_entries(_, _)
sanitize_entries(l, ignored_re) ==
    IF l = <<>> THEN <<>>
    ELSE LET entry == Head(l).s
             rest  == sanitize_entries(Tail(l), ignored_re)
         IN  IF strip(entry) # <<>> /\ ~has_prefix(entry, ignored_re)
             THEN <<strip(entry)>> \o rest
             ELSE rest

sanitize_list(input_list, ignored_re) ==
    IF input_list.kind = "str"
    THEN \* the pattern is matched against the pattern, not against the input
         IF strip(input_list.s) # <<>> /\ ~has_prefix(ignored_re.src, ignored_re)
         THEN Returned(<<strip(input_list.s)>>)
         ELSE Returned(<<>>)
    ELSE IF ~truthy(input_list)
    THEN Returned(<<>>)
    ELSE IF input_list.kind = "int"
    THEN Raised("TypeError")          \* 'int' object is not iterable
    ELSE IF \E i \in 1..Len(input_list.l) : ~input_list.l[i].isStr
    THEN Raised("AttributeError")     \* None has no attribute 'strip'
    ELSE Returned(sanitize_entries(input_list.l, ignored_re))

\* "return sanitize_list(...)," : the trailing comma wraps the list in a tuple.
tuple_of(result) ==
    IF result.status = "return" THEN [result EXCEPT !.tupled = TRUE] ELSE result

sanitize_projects(input_list) == sanitize_list(input_list, Re(RE_PROJECTS))
sanitize_tenants(input_list) == sanitize_list(input_list, Re(RE_TENANTS))
sanitize_environments(input_list) ==
    tuple_of(sanitize_list(input_list, Re(RE_ENVIRONMENTS)))
sanitize_targets(input_list) == sanitize_list(input_list, Re(RE_TARGETS))
sanitize_runbooks(input_list) == sanitize_list(input_list, Re(RE_RUNBOOKS))
sanitize_library_variable_sets(input_list) ==
    sanitize_list(input_list, Re(RE_LIBRARY_VARIABLE_SETS))

\* ---- the inputs the sanitizer actions draw from ----

STAR            == <<"*">>
PROJECT_A       == <<"P", "r", "o", "j", "e", "c", "t", " ", "A">>
MY_PROJECT      == <<"M", "y", "P", "r", "o", "j", "e", "c", "t">>
TENANT_A        == <<"T", "e", "n", "a", "n", "t", " ", "A">>
MY_TENANT       == <<"M", "y", "T", "e", "n", "a", "n", "t">>
ENVIRONMENT_1   == <<"E", "n", "v", "i", "r", "o", "n", "m", "e", "n", "t", " ", "1">>
MY_ENVIRONMENT  == <<"M", "y", "E", "n", "v", "i", "r", "o", "n", "m", "e", "n", "t">>
MACHINE_1       == <<"M", "a", "c", "h", "i", "n", "e", " ", "1">>
MY_TARGET       == <<"M", "y", "T", "a", "r", "g", "e", "t">>
RUNBOOK_A       == <<"R", "u", "n", "b", "o", "o", "k", " ", "A">>
MY_RUNBOOK      == <<"M", "y", "R", "u", "n", "b", "o", "o", "k">>
VARIABLE_SET_A  == <<"V", "a", "r", "i", "a", "b", "l", "e", " ", "S", "e", "t", " ", "A">>
LIBRARY_VARIABLE_SET_1 ==
    <<"L", "i", "b", "r", "a", "r", "y", " ",
      "V", "a", "r", "i", "a", "b", "l", "e", " ", "S", "e", "t", " ", "1">>
DEPLOY_WEBAPP   == <<"D", "e", "p", "l", "o", "y", " ", "W", "e", "b", "A", "p", "p">>

\* The canonical placeholders of each entity kind.
Placeholders(fn) ==
    {STAR} \cup
    CASE fn = "sanitize_projects"               -> {PROJECT_A, MY_PROJECT}
      [] fn = "sanitize_tenants"                -> {TENANT_A, MY_TENANT}
      [] fn = "sanitize_environments"           -> {ENVIRONMENT_1, MY_ENVIRONMENT}
      [] fn = "sanitize_targets"                -> {MACHINE_1, MY_TARGET}
      [] fn = "sanitize_runbooks"               -> {RUNBOOK_A, MY_RUNBOOK}
      [] fn = "sanitize_library_variable_sets"  -> {VARIABLE_SET_A, LIBRARY_VARIABLE_SET_1}
      [] OTHER                                  -> {}

KindSanitizers ==
    {"sanitize_projects", "sanitize_tenants", "sanitize_environments",
     "sanitize_targets", "sanitize_runbooks", "sanitize_library_variable_sets"}

Names ==
    {STAR, PROJECT_A, MY_PROJECT, TENANT_A, MY_TENANT, ENVIRONMENT_1,
     MY_ENVIRONMENT, MACHINE_1, MY_TARGET, RUNBOOK_A, MY_RUNBOOK,
     VARIABLE_SET_A, LIBRARY_VARIABLE_SET_1, DEPLOY_WEBAPP}

\* Generated strings: blanks, wildcards and letters, padded or not.
GenStrings == StringsUpTo({" ", "*", "a"}, MaxStrLen)

\* Entries of the generated lists.
ListEntries ==
    {StrEntry(s) : s \in GenStrings \cup {PROJECT_A, DEPLOY_WEBAPP}} \cup {NoneEntry}

RECURSIVE ListsUpTo(_, _)
ListsUpTo(entries, n) ==
    IF n = 0 THEN {<<>>}
    ELSE LET shorter == ListsUpTo(entries, n - 1)
         IN  shorter \cup {Append(l, e) : l \in shorter, e \in entries}

\* Arguments of sanitize_list.
RawInputs ==
    {StrArg(s) : s \in GenStrings \cup Names}
    \cup {ListArg(l) : l \in ListsUpTo(ListEntries, MaxListLen)}
    \cup {NoneArg, IntArg(0), IntArg(5)}

\* Arguments of the entity-kind sanitizers: a name alone, or lists of names.
KindInputs ==
    {StrArg(s) : s \in GenStrings \cup Names}
    \cup {ListArg(<<StrEntry(s)>>) : s \in GenStrings \cup Names}
    \cup {ListArg(<<>>), ListArg(<<NoneEntry>>), NoneArg}

Patterns ==
    {NoneRe, Re(<<>>), Re(<<"a">>), Re(<<"\\", "*">>), Re(RE_PROJECTS),
     Re(RE_LIBRARY_VARIABLE_SETS)}

SanIdle ==
    [fn |-> "idle", raw |-> NoneArg, re |-> NoneRe, out |-> NoResult,
     first |-> NoResult]

SanCall(fn, raw, re, out) ==
    [fn |-> fn, raw |-> raw, re |-> re, out |-> out, first |-> NoResult]

CallSanitizeList ==
    /\ san.fn = "idle"
    /\ \E raw \in RawInputs, re \in Patterns :
          san' = SanCall("sanitize_list", raw, re, sanitize_list(raw, re))
    /\ UNCHANGED <<llm, rt, gate, red, acl, store>>

CallSanitizeProjects ==
    /\ san.fn = "idle"
    /\ \E raw \in KindInputs :
          san' = SanCall("sanitize_projects", raw, Re(RE_PROJECTS),
                         sanitize_projects(raw))
    /\ UNCHANGED <<llm, rt, gate, red, acl, store>>

CallSanitizeTenants ==
    /\ san.fn = "idle"
    /\ \E raw \in KindInputs :
          san' = SanCall("sanitize_tenants", raw, Re(RE_TENANTS),
                         sanitize_tenants(raw))
    /\ UNCHANGED <<llm, rt, gate, red, acl, store>>

CallSanitizeEnvironments ==
    /\ san.fn = "idle"
    /\ \E raw \in KindInputs :
          san' = SanCall("sanitize_environments", raw, Re(RE_ENVIRONMENTS),
                         sanitize_environments(raw))
    /\ UNCHANGED <<llm, rt, gate, red, acl, store>>

CallSanitizeTargets ==
    /\ san.fn = "idle"
    /\ \E raw \in KindInputs :
          san' = SanCall("sanitize_targets", raw, Re(RE_TARGETS),
                         sanitize_targets(raw))
    /\ UNCHANGED <<llm, rt, gate, red, acl, store>>

CallSanitizeRunbooks ==
    /\ san.fn = "idle"
    /\ \E raw \in KindInputs :
          san' = SanCall("sanitize_runbooks", raw, Re(RE_RUNBOOKS),
                         sanitize_runbooks(raw))
    /\ UNCHANGED <<llm, rt, gate, red, acl, store>>

CallSanitizeLibraryVariableSets ==
    /\ san.fn = "idle"
    /\ \E raw \in KindInputs :
          san' = SanCall("sanitize_library_variable_sets", raw,
                         Re(RE_LIBRARY_VARIABLE_SETS),
                         sanitize_library_variable_sets(raw))
    /\ UNCHANGED <<llm, rt, gate, red, acl, store>>

\* The list a call of sanitize_list returned, passed to sanitize_list again
\* with the same pattern.
RECURSIVE as_entries(_)
as_entries(val) ==
    IF val = <<>> THEN <<>> ELSE <<StrEntry(Head(val))>> \o as_entries(Tail(val))

CallSanitizeListAgain ==
    /\ san.fn = "sanitize_list"
    /\ san.out.status = "return"
    /\ san' = [fn    |-> "sanitize_list_again",
               raw   |-> ListArg(as_entries(san.out.val)),
               re    |-> san.re,
               out   |-> sanitize_list(ListArg(as_entries(san.out.val)), san.re),
               first |-> san.out]
    /\ UNCHANGED <<llm, rt, gate, red, acl, store>>

\* The caller takes the outcome; the next call starts afresh (the sanitizers
\* keep no state between calls).
SanitizerReturn ==
    /\ san.fn # "idle"
    /\ san' = SanIdle
    /\ UNCHANGED <<llm, rt, gate, red, acl, store>>

NextSanitizer ==
    \/ CallSanitizeList
    \/ CallSanitizeProjects
    \/ CallSanitizeTenants
    \/ CallSanitizeEnvironments
    \/ CallSanitizeTargets
    \/ CallSanitizeRunbooks
    \/ CallSanitizeLibraryVariableSets
    \/ CallSanitizeListAgain
    \/ SanitizerReturn

----------------------------------------------------------------------------
(* domain/handlers/copilot_handler.py: query_llm                           *)

\* A configuration document has tens of thousands of characters: its text is
\* kept as runs, <<[c |-> "a", n |-> 3], [c |-> "\n", n |-> 1]>> for "aaa\n",
\* where adjacent runs have different characters and every n is positive.

\* len(text)
RECURSIVE text_len(_)
text_len(text) ==
    IF text = <<>> THEN 0 ELSE Head(text).n + text_len(Tail(text))

\* text[0:k]
RECURSIVE text_slice(_, _)
text_slice(text, k) ==
    IF text = <<>> \/ k <= 0 THEN <<>>
    ELSE IF Head(text).n <= k
    THEN <<Head(text)>> \o text_slice(Tail(text), k - Head(text).n)
    ELSE <<[c |-> Head(text).c, n |-> k]>>

\* a + b
text_concat(a, b) ==
    IF a = <<>> THEN b
    ELSE IF b = <<>> THEN a
    ELSE IF a[Len(a)].c = Head(b).c
    THEN SubSeq(a, 1, Len(a) - 1)
         \o <<[c |-> Head(b).c, n |-> a[Len(a)].n + Head(b).n]>>
         \o Tail(b)
    ELSE a \o b

\* Indentation removed: the blanks at the start of every line.
RECURSIVE drop_indentation(_, _)
drop_indentation(text, at_line_start) ==
    IF text = <<>> THEN <<>>
    ELSE IF Head(text).c = " " /\ at_line_start
    THEN drop_indentation(Tail(text), TRUE)
    ELSE text_concat(<<Head(text)>>,
                     drop_indentation(Tail(text), Head(text).c = "\n"))

\* Redundant blank lines removed: consecutive line ends become one.
RECURSIVE drop_blank_lines(_)
drop_blank_lines(text) ==
    IF text = <<>> THEN <<>>
    ELSE <<IF Head(text).c = "\n" THEN [c |-> "\n", n |-> 1] ELSE Head(text)>>
         \o drop_blank_lines(Tail(text))

\* minify_hcl(hcl): the document without its non-semantic whitespace.
minify_hcl(hcl) == drop_blank_lines(drop_indentation(hcl, TRUE))

\* max_chars = 13500 * 4
max_chars == 54000

\* ---- round(d / full * 100, 2), as the doubles of Python compute it ----

RECURSIVE pow2(_)
pow2(i) == IF i = 0 THEN 1 ELSE 2 * pow2(i - 1)

\* 2^i modulo m
RECURSIVE pow2_mod(_, _)
pow2_mod(i, m) == IF i = 0 THEN 1 % m ELSE (2 * pow2_mod(i - 1, m)) % m

\* The exponent of the double of n / 625, plus 10: the largest E with
\* 625 * 2^E <= n * 2^10, for 0 < n < 20000.
RECURSIVE binade(_, _)
binade(n, E) == IF 625 * pow2(E + 1) <= n * 1024 THEN binade(n, E + 1) ELSE E

\* For an odd n, d / full = n / 20000 is a ratio whose percentage n / 200 lies
\* half way between two hundredths. The code computes the double x of
\* d / full and the double y of x * 100: x is q / 32 with q the double of
\* n / 625, and y is the double of 25 * q, over 8. With M the 53-bit mantissa
\* of q and s = 52 minus its exponent, rho = 625 * M - n * 2^s is the error of
\* the division and delta the error of rounding 25 * M to 53 bits; y - n / 200
\* has the sign of 25 * delta + rho.
double_error_sign(n) ==
    LET E     == binade(n, 0)
        s     == 62 - E
        r0    == (n * pow2_mod(s, 625)) % 625
        rho   == IF 2 * r0 > 625 THEN 625 - r0 ELSE 0 - r0
        \* M modulo 64: 625 * M = rho modulo 64, and 17 * 625 = 1 modulo 64
        M64   == (17 * (rho + 640)) % 64
        \* 25 * M has 58 bits, not 57, when n * 2^s + rho >= 25 * 2^57
        lhs   == IF E < 10 THEN n * pow2(10 - E) ELSE n
        rhs   == IF E < 10 THEN 800 ELSE 800 * pow2(E - 10)
        j     == IF lhs > rhs \/ (lhs = rhs /\ rho >= 0) THEN 5 ELSE 4
        P     == 25 * M64
        L     == P % pow2(j)
        odd   == (P \div pow2(j)) % 2 = 1
        half  == pow2(j - 1)
        delta == IF L > half \/ (L = half /\ odd) THEN pow2(j) - L ELSE 0 - L
    IN  25 * delta + rho

\* round(d / full * 100, 2) in hundredths, for 0 <= d <= full and full > 0:
\* the nearest hundredth; where the exact percentage lies half way between
\* two hundredths, the one on the side of the double y, and the even one
\* when y is the exact half.
round_percent(d, full) ==
    LET num == d * 10000
        q   == num \div full
        r   == num % full
    IN  IF 2 * r > full THEN q + 1
        ELSE IF 2 * r < full THEN q
        ELSE LET sign == double_error_sign(2 * q + 1)
             IN  IF sign > 0 THEN q + 1
                 ELSE IF sign < 0 THEN q
                 ELSE IF q % 2 = 0 THEN q ELSE q + 1

\* The share of the minified text that is kept, in hundredths of a percent.
percent_kept(minified_context, budget) ==
    LET full == text_len(minified_context)
        kept == text_len(text_slice(minified_context, budget))
    IN  IF full # 0 THEN round_percent(kept, full) ELSE 0

\* The percent_truncated of query_llm for a minified text cut at budget
\* characters, in hundredths of a percent (round(..., 2) keeps two decimals):
\* round((len(minified) - len(truncated)) / len(minified) * 100, 2), or 0 for
\* an empty text.
percent_truncated(minified_context, budget) ==
    LET truncated_context == text_slice(minified_context, budget)
        full == text_len(minified_context)
        kept == text_len(truncated_context)
    IN  IF full # 0 THEN round_percent(full - kept, full) ELSE 0

TOO_BROAD == "Your query was too broad. Please ask a more specific question."

NoText == <<>>

\* ---- build_hcl_prompt ----

DOMAIN_INSTRUCTION ==
    <<"system",
      "You understand Terraform modules defining Octopus Deploy resources.You must assume the Terraform is an accurate representation of the live project. Do not mention Terraform in the response. Do not show any Terraform snippets in the response. Do not mention that you referenced the Terraform to provide your answer. You must assume questions about variables refer to Octopus variables. Variables are referenced using the syntax #{{Variable Name}}, $OctopusParameters[\"Variable Name\"], Octopus.Parameters[\"Variable Name\"], get_octopusvariable \"Variable Name\", or get_octopusvariable(\"Variable Name\"). The values of secret variables are not defined in the Terraform configuration. Do not mention the fact that the values of secret variables are not defined.">>
INPUT_MESSAGE    == <<"user", "{input}">>
ANSWER_MESSAGE   == <<"user", "Answer the question using the HCL below.">>
CONTEXT_MESSAGE  == <<"user", "HCL: ###\n{context}\n###">>
VERBOSE_PERSONA  == <<"system", "You are a verbose and helpful agent.">>
CONCISE_PERSONA  ==
    <<"system",
      "You are a concise and helpful agent. Respond only with the answer to the question.">>
STEP_BY_STEP_CUE == <<"user", "Let's think step by step.">>

\* list.insert(0, x) and list.append(x)
insert_first(messages, x) == <<x>> \o messages
append(messages, x)       == messages \o <<x>>

\* build_hcl_prompt with the step-by-step cue appended whatever step_by_step
\* is.
build_hcl_prompt_always_cued(step_by_step) ==
    LET messages == <<DOMAIN_INSTRUCTION, INPUT_MESSAGE, ANSWER_MESSAGE,
                      CONTEXT_MESSAGE>>
    IN  append(insert_first(messages,
                            IF step_by_step THEN VERBOSE_PERSONA
                                            ELSE CONCISE_PERSONA),
               STEP_BY_STEP_CUE)

\* build_hcl_prompt(step_by_step): the list of (role, text) pairs.
build_hcl_prompt(step_by_step) ==
    LET messages == <<DOMAIN_INSTRUCTION, INPUT_MESSAGE, ANSWER_MESSAGE,
                      CONTEXT_MESSAGE>>
    IN  IF step_by_step
        THEN append(insert_first(messages, VERBOSE_PERSONA), STEP_BY_STEP_CUE)
        ELSE insert_first(messages, CONCISE_PERSONA)

\* ---- query_llm ----

NoReply == [ok |-> FALSE, content |-> "", exc |-> ""]
NoSpace == [ok |-> FALSE, hcl |-> NoText, exc |-> ""]

LlmIdle ==
    [op |-> "idle", context |-> NoText, query |-> "", log_query |-> FALSE,
     percent |-> 0, invoked |-> FALSE, invoked_context |-> NoText,
     logged |-> <<>>, status |-> "none", exc |-> "", value |-> "",
     message_prompt |-> <<>>, reply |-> NoReply,
     space_name |-> <<>>, step_by_step |-> FALSE, space |-> NoSpace,
     fetched |-> FALSE]

\* query_llm(message_prompt, context, query, log_query): log_query is TRUE
\* when a logger is passed and FALSE when it is None; reply is what
\* chain.invoke does when it is called (it returns content, or raises).
query_llm(message_prompt, context, query, log_query, reply) ==
    LET minified_context  == minify_hcl(context)
        truncated_context == text_slice(minified_context, max_chars)
        percent           == percent_truncated(minified_context, max_chars)
        call == [LlmIdle EXCEPT !.op = "query_llm", !.context = context,
                                !.query = query, !.log_query = log_query,
                                !.percent = percent,
                                !.message_prompt = message_prompt,
                                !.reply = reply]
    IN  IF percent > 0
        THEN IF ~log_query
             THEN \* log_query(...) with log_query None
                  [call EXCEPT !.status = "raise", !.exc = "TypeError"]
             ELSE [call EXCEPT !.logged = <<"query_llm", "Context:", "Query:",
                                           "Context truncation:">>,
                               !.status = "return", !.value = TOO_BROAD]
        ELSE LET invoked == [call EXCEPT !.invoked = TRUE,
                                         !.invoked_context = truncated_context]
             IN  IF ~reply.ok
                 THEN [invoked EXCEPT !.status = "raise", !.exc = reply.exc]
                 ELSE [invoked EXCEPT
                         !.logged = IF log_query
                                    THEN <<"query_llm", "Context:", "Query:",
                                           "Response:">>
                                    ELSE <<>>,
                         !.status = "return", !.value = reply.content]

\* ---- the inputs query_llm is called with ----

\* How far the generated documents go below and above the budget.
MaxMargin == 4

\* Lengths of the body of a document: short ones, the ones around the budget,
\* and one twice the budget.
BodyLengths ==
    (0..MaxMargin)
    \cup ((max_chars - MaxMargin)..(max_chars + MaxMargin))
    \cup {2 * max_chars}

Run(c, n) == IF n = 0 THEN <<>> ELSE <<[c |-> c, n |-> n]>>

\* Documents: an indented block of HCL, followed by blank lines and a last line.
Documents ==
    {Run(" ", indent) \o Run("a", body) \o Run("\n", blank) \o Run("b", last) :
        indent \in {0, 2}, body \in BodyLengths, blank \in {0, 1, 3},
        last \in {0, 1}}

Queries == {"What does this project do?", "List the variables."}

Replies ==
    {[ok |-> TRUE, content |-> "The project deploys a web app.", exc |-> ""],
     [ok |-> FALSE, content |-> "", exc |-> "RateLimitError"]}

\* The prompts the callers of query_llm pass.
Prompts == {build_hcl_prompt(step_by_step) : step_by_step \in BOOLEAN}

CallQueryLlm ==
    /\ llm.op = "idle"
    /\ \E message_prompt \in Prompts, context \in Documents,
          query \in Queries, log_query \in BOOLEAN, reply \in Replies :
          llm' = query_llm(message_prompt, context, query, log_query, reply)
    /\ UNCHANGED <<san, rt, gate, red, acl, store>>

QueryLlmReturn ==
    /\ llm.op # "idle"
    /\ llm' = LlmIdle
    /\ UNCHANGED <<san, rt, gate, red, acl, store>>

----------------------------------------------------------------------------
(* domain/handlers/copilot_handler.py: handle_copilot_tools_execution,     *)
(* and domain/tools/wrapper/runbooks_dashboard_wrapper.py                  *)

NO_FUNCTION_RESPONSE == "Sorry, I did not understand that request."

\* A Python function as a call sees it: its declared parameters, the ones
\* without a default, and whether it has a **kwargs parameter.
\* None stands for "no function".
NoneFunction ==
    [name |-> "None", params |-> {}, required |-> {}, kwargs |-> FALSE]

\* lambda: NO_FUNCTION_RESPONSE
no_function_lambda ==
    [name |-> "<lambda>", params |-> {}, required |-> {}, kwargs |-> FALSE]

\* get_runbook_dashboard_wrapper(original_query, api_key, url, callback): the
\* tool it returns declares three parameters, none with a default (": None"
\* is an annotation), and no **kwargs.
get_runbook_dashboard_wrapper ==
    [name     |-> "get_runbook_dashboard_tool",
     params   |-> {"space_name", "project_name", "runbook_name"},
     required |-> {"space_name", "project_name", "runbook_name"},
     kwargs   |-> FALSE]

\* The general query tool of the test tool set: every parameter has a
\* default, and **kwargs takes the arguments it does not declare.
answer_general_query ==
    [name     |-> "answer_general_query",
     params   |-> {"space_name", "project_names"},
     required |-> {},
     kwargs   |-> TRUE]

\* The registry llm_tools() returns.
FunctionDefinitions == {answer_general_query, get_runbook_dashboard_wrapper}

\* functions.get_function(name): the handler registered under the name.  For
\* a name that is not registered it raises or returns None (miss).
get_function(functions, name, miss) ==
    IF \E f \in functions : f.name = name
    THEN [ok |-> TRUE, function |-> CHOOSE f \in functions : f.name = name]
    ELSE IF miss = "raise"
    THEN [ok |-> FALSE, function |-> NoneFunction]
    ELSE [ok |-> TRUE, function |-> NoneFunction]

\* FunctionCall(function, function_args)
FunctionCall(function, function_args) ==
    [function |-> function, function_args |-> function_args]

NoFunctionCall == FunctionCall(NoneFunction, {})

\* function(**function_args): the outcome of the call, and the arguments the
\* function body (and so the wrapped callback) receives.
call_function(fc) ==
    LET f    == fc.function
        args == fc.function_args
    IN  IF f = NoneFunction
        THEN [status |-> "raise", exc |-> "TypeError", value |-> "", received |-> {}]
        ELSE IF ~f.kwargs /\ ~(args \subseteq f.params)
        THEN \* got an unexpected keyword argument
             [status |-> "raise", exc |-> "TypeError", value |-> "", received |-> {}]
        ELSE IF ~(f.required \subseteq args)
        THEN \* missing required positional arguments
             [status |-> "raise", exc |-> "TypeError", value |-> "", received |-> {}]
        ELSE [status   |-> "return",
              exc      |-> "",
              value    |-> IF f = no_function_lambda
                           THEN NO_FUNCTION_RESPONSE
                           ELSE "result of " \o f.name,
              received |-> args \cap f.params]

NoCall == [status |-> "none", exc |-> "", value |-> "", received |-> {}]

\* ensure_string_not_empty(string, message): an empty or blank string is an
\* invalid argument.
ensure_string_not_empty(string) == strip(string) # <<>>

\* ensure_not_falsy(value, message), for a string value.
ensure_not_falsy(value) == value # <<>>

RtIdle ==
    [op |-> "idle", query |-> <<>>, llm_tools |-> FALSE,
     plan |-> [kind |-> "none", tool |-> "", tool_input |-> {}],
     provider_calls |-> 0, agent_built |-> FALSE, model_calls |-> 0,
     status |-> "none", exc |-> "", result |-> NoFunctionCall,
     call |-> NoCall]

\* handle_copilot_tools_execution(query, llm_tools, log_query): llm_tools is
\* TRUE when a tool provider is passed and FALSE when it is None; plan is what
\* agent.plan does when it is called: it raises, returns an AgentFinish (no
\* tool attribute) or an AgentAction with a tool and a tool_input.
handle_copilot_tools_execution(query, llm_tools, plan, miss) ==
    LET call == [RtIdle EXCEPT !.op = "routed", !.query = query,
                               !.llm_tools = llm_tools, !.plan = plan]
    IN  IF ~ensure_string_not_empty(query)
        THEN [call EXCEPT !.status = "raise", !.exc = "InvalidArgument"]
        ELSE IF ~ensure_not_falsy(query)     \* query again, not llm_tools
        THEN [call EXCEPT !.status = "raise", !.exc = "InvalidArgument"]
        ELSE IF ~llm_tools
        THEN \* llm_tools() with llm_tools None
             [call EXCEPT !.status = "raise", !.exc = "TypeError"]
        ELSE LET planned == [call EXCEPT !.provider_calls = 1,
                                         !.agent_built = TRUE,
                                         !.model_calls = 1]
                 found == get_function(FunctionDefinitions, plan.tool, miss)
             IN  IF plan.kind = "raise"
                 THEN [planned EXCEPT !.status = "raise", !.exc = "RateLimitError"]
                 ELSE IF plan.kind = "finish"
                 THEN [planned EXCEPT
                         !.status = "return",
                         !.result = FunctionCall(no_function_lambda, {})]
                 ELSE IF ~found.ok
                 THEN [planned EXCEPT !.status = "raise", !.exc = "Exception"]
                 ELSE [planned EXCEPT
                         !.status = "return",
                         !.result = FunctionCall(found.function, plan.tool_input)]

\* ---- the inputs the router is called with ----

QUERY_EARTH ==
    <<"W", "h", "a", "t", " ", "i", "s", " ", "t", "h", "e", " ",
      "s", "i", "z", "e", " ", "o", "f", " ", "t", "h", "e", " ",
      "e", "a", "r", "t", "h", "?">>
QUERY_DASHBOARD ==
    <<"S", "h", "o", "w", " ", "t", "h", "e", " ", "r", "u", "n",
      "b", "o", "o", "k", " ", "d", "a", "s", "h", "b", "o", "a",
      "r", "d", ".">>

RouterQueries == {<<>>, <<" ">>, <<" ", "\t">>, QUERY_EARTH, QUERY_DASHBOARD}

\* Names of the arguments the selection model may extract.
ArgumentNames ==
    {"space_name", "project_name", "runbook_name", "project_names", "type"}

ToolNames ==
    {"answer_general_query", "get_runbook_dashboard_tool", "unregistered_tool"}

Plans ==
    {[kind |-> "raise", tool |-> "", tool_input |-> {}],
     [kind |-> "finish", tool |-> "", tool_input |-> {}]}
    \cup [kind : {"action"}, tool : ToolNames, tool_input : SUBSET ArgumentNames]

CallHandleCopilotToolsExecution ==
    /\ rt.op = "idle"
    /\ \E query \in RouterQueries, llm_tools \in BOOLEAN, plan \in Plans,
          miss \in {"raise", "none"} :
          rt' = handle_copilot_tools_execution(query, llm_tools, plan, miss)
    /\ UNCHANGED <<san, llm, gate, red, acl, store>>

\* The caller invokes the action it was given: function.call_function().
CallFunction ==
    /\ rt.op = "routed"
    /\ rt.status = "return"
    /\ rt' = [rt EXCEPT !.op = "invoked", !.call = call_function(rt.result)]
    /\ UNCHANGED <<san, llm, gate, red, acl, store>>

RouterReturn ==
    /\ rt.op # "idle"
    /\ rt' = RtIdle
    /\ UNCHANGED <<san, llm, gate, red, acl, store>>

NextRouter ==
    \/ CallHandleCopilotToolsExecution
    \/ CallFunction
    \/ RouterReturn

----------------------------------------------------------------------------
(* handle_configuration_query: validation, the fetch of the space's        *)
(* configuration and the query of the model.                               *)

\* handle_configuration_query(query, space_name, ..., log_query,
\* step_by_step): the name lists, api_key and octopus_url go to
\* get_octoterra_space (and to the logger) only; space is what
\* get_octoterra_space does when it is called (it returns the HCL, or raises).
handle_configuration_query(query, space_name, space, log_query, step_by_step, reply) ==
    LET call == [LlmIdle EXCEPT !.op = "handle_configuration_query",
                                !.query = query, !.space_name = space_name,
                                !.space = space, !.log_query = log_query,
                                !.step_by_step = step_by_step,
                                !.reply = reply]
        entry_log == IF log_query
                     THEN <<"handle_configuration_query", "Query:",
                            "Space Name:", "Project Names:", "Runbook Names:",
                            "Target Names:", "Tenant Names:",
                            "Library Variable Set Names:">>
                     ELSE <<>>
        asked == query_llm(build_hcl_prompt(step_by_step), space.hcl, query,
                           log_query, reply)
    IN  IF ~ensure_string_not_empty(query)
        THEN [call EXCEPT !.status = "raise", !.exc = "InvalidArgument"]
        ELSE IF ~ensure_string_not_empty(space_name)
        THEN [call EXCEPT !.status = "raise", !.exc = "InvalidArgument"]
        ELSE IF ~space.ok
        THEN [call EXCEPT !.logged = entry_log, !.fetched = TRUE,
                          !.status = "raise", !.exc = space.exc]
        ELSE [asked EXCEPT !.op = "handle_configuration_query",
                           !.space_name = space_name, !.space = space,
                           !.step_by_step = step_by_step, !.fetched = TRUE,
                           !.logged = entry_log \o asked.logged]

\* ---- the inputs handle_configuration_query is called with ----

SPACE_DEFAULT == <<"D", "e", "f", "a", "u", "l", "t">>

HandlerQueries == {<<>>, <<" ">>, QUERY_EARTH}
SpaceNames     == {<<>>, <<"\t">>, SPACE_DEFAULT}

\* What get_octoterra_space does: the HCL of the space, or an error.
Spaces ==
    {[ok |-> TRUE, hcl |-> d, exc |-> ""] :
        d \in {Run("a", body) : body \in BodyLengths}}
    \cup {[ok |-> FALSE, hcl |-> NoText, exc |-> "OctopusRequestFailed"]}

CallHandleConfigurationQuery ==
    /\ llm.op = "idle"
    /\ \E query \in HandlerQueries, space_name \in SpaceNames,
          space \in Spaces, log_query \in BOOLEAN, step_by_step \in BOOLEAN,
          reply \in Replies :
          llm' = handle_configuration_query(query, space_name, space,
                                            log_query, step_by_step, reply)
    /\ UNCHANGED <<san, rt, gate, red, acl, store>>

NextLlm ==
    \/ CallQueryLlm
    \/ CallHandleConfigurationQuery
    \/ QueryLlmReturn

----------------------------------------------------------------------------
(* domain/security/security.py                                             *)

\* A JSON text is a sequence of tokens: the punctuation "[", "]", "{", "}",
\* ",", ":", a string literal ("str", with its characters), a number, null,
\* and "bad" for anything that is no JSON token.
Tok(t) == [t |-> t, s |-> <<>>]
StrTok(s) == [t |-> "str", s |-> s]

\* The Python values json.loads returns: a list, a str, a dict (its keys),
\* an int, None.
PyList(items) == [k |-> "list", s |-> <<>>, items |-> items]
PyStr(s)      == [k |-> "str",  s |-> s,    items |-> <<>>]
PyDict(keys)  == [k |-> "dict", s |-> <<>>, items |-> keys]
PyInt         == [k |-> "int",  s |-> <<>>, items |-> <<>>]
PyNone        == [k |-> "None", s |-> <<>>, items |-> <<>>]

JsonFail == [ok |-> FALSE, val |-> PyNone, next |-> 0]
JsonOk(val, next) == [ok |-> TRUE, val |-> val, next |-> next]

\* The JSON value that starts at token i: the value and the position after it.
RECURSIVE json_value(_, _)
RECURSIVE json_elements(_, _, _)
RECURSIVE json_members(_, _, _)

json_value(toks, i) ==
    IF i > Len(toks) THEN JsonFail
    ELSE LET tok == toks[i]
         IN  IF tok.t = "str" THEN JsonOk(PyStr(tok.s), i + 1)
             ELSE IF tok.t = "num" THEN JsonOk(PyInt, i + 1)
             ELSE IF tok.t = "null" THEN JsonOk(PyNone, i + 1)
             ELSE IF tok.t = "["
             THEN IF i + 1 <= Len(toks) /\ toks[i + 1].t = "]"
                  THEN JsonOk(PyList(<<>>), i + 2)
                  ELSE json_elements(toks, i + 1, <<>>)
             ELSE IF tok.t = "{"
             THEN IF i + 1 <= Len(toks) /\ toks[i + 1].t = "}"
                  THEN JsonOk(PyDict(<<>>), i + 2)
                  ELSE json_members(toks, i + 1, <<>>)
             ELSE JsonFail

\* The elements of an array from token i on, after the elements in acc.
json_elements(toks, i, acc) ==
    LET v == json_value(toks, i)
    IN  IF ~v.ok \/ v.next > Len(toks) THEN JsonFail
        ELSE IF toks[v.next].t = ","
        THEN json_elements(toks, v.next + 1, Append(acc, v.val))
        ELSE IF toks[v.next].t = "]"
        THEN JsonOk(PyList(Append(acc, v.val)), v.next + 1)
        ELSE JsonFail

\* The members of an object from token i on, after the keys in acc.
json_members(toks, i, acc) ==
    IF i + 1 > Len(toks) \/ toks[i].t # "str" \/ toks[i + 1].t # ":"
    THEN JsonFail
    ELSE LET v == json_value(toks, i + 2)
         IN  IF ~v.ok \/ v.next > Len(toks) THEN JsonFail
             ELSE IF toks[v.next].t = ","
             THEN json_members(toks, v.next + 1, Append(acc, PyStr(toks[i].s)))
             ELSE IF toks[v.next].t = "}"
             THEN JsonOk(PyDict(Append(acc, PyStr(toks[i].s))), v.next + 1)
             ELSE JsonFail

\* json.loads(text): the value, or not ok for a JSONDecodeError.
json_loads(text) ==
    LET v == json_value(text, 1)
    IN  IF v.ok /\ v.next = Len(text) + 1 THEN v ELSE JsonFail

\* a in b, for strings
is_substring(a, b) ==
    \E i \in 0..(Len(b) - Len(a)) : SubSeq(b, i + 1, i + Len(a)) = a

\* name in container, for a str name: an element of a list, a substring of a
\* str, a key of a dict; a TypeError (not ok) for an int or None.
py_in(name, container) ==
    IF container.k = "list"
    THEN [ok |-> TRUE,
          found |-> \E i \in 1..Len(container.items) :
                       container.items[i] = PyStr(name)]
    ELSE IF container.k = "str"
    THEN [ok |-> TRUE, found |-> is_substring(name, container.s)]
    ELSE IF container.k = "dict"
    THEN [ok |-> TRUE,
          found |-> \E i \in 1..Len(container.items) :
                       container.items[i] = PyStr(name)]
    ELSE [ok |-> FALSE, found |-> FALSE]

GateIdle ==
    [op |-> "idle",
     user |-> [ok |-> TRUE, name |-> <<>>],
     get_admin_users |-> [ok |-> TRUE, text |-> <<>>],
     callback |-> [ok |-> TRUE, value |-> "", exc |-> ""],
     events |-> <<>>, status |-> "none", exc |-> "", value |-> ""]

\* is_admin_user with an except clause that catches nothing: a failure of
\* the provider, of json.loads or of user() reaches the caller as it is.
is_admin_user_uncaught(user, get_admin_users, callback) ==
    LET call == [op |-> "is_admin_user", user |-> user,
                 get_admin_users |-> get_admin_users, callback |-> callback,
                 events |-> <<>>, status |-> "none", exc |-> "", value |-> ""]
        failed(events, exc) == [call EXCEPT !.events = events,
                                            !.status = "raise", !.exc = exc]
        admin_users == json_loads(get_admin_users.text)
        member == py_in(user.name, admin_users.val)
    IN  IF ~get_admin_users.ok THEN failed(<<"get_admin_users">>, "HttpError")
        ELSE IF ~admin_users.ok
        THEN failed(<<"get_admin_users">>, "JSONDecodeError")
        ELSE IF ~user.ok THEN failed(<<"get_admin_users", "user">>, "KeyError")
        ELSE IF ~member.ok
        THEN failed(<<"get_admin_users", "user">>, "TypeError")
        ELSE IF ~member.found
        THEN failed(<<"get_admin_users", "user">>, "NotAuthorized")
        ELSE LET called == [call EXCEPT !.events = <<"get_admin_users", "user",
                                                     "callback">>]
             IN  IF callback.ok
                 THEN [called EXCEPT !.status = "return",
                                     !.value = callback.value]
                 ELSE [called EXCEPT !.status = "raise", !.exc = callback.exc]

\* is_admin_user with the call of the action inside the try block: an error
\* of the action is caught by the except clause.
is_admin_user_guarded_action(user, get_admin_users, callback) ==
    LET checked == is_admin_user_uncaught(user, get_admin_users, callback)
    IN  IF checked.status = "raise"
        THEN [checked EXCEPT !.exc = "NotAuthorized"]
        ELSE checked

\* is_admin_user(user, get_admin_users, callback): each argument is what the
\* function passed does when it is called (what it returns, or that it
\* raises); events lists the calls made, in order.
is_admin_user(user, get_admin_users, callback) ==
    LET call == [GateIdle EXCEPT !.op = "is_admin_user", !.user = user,
                                 !.get_admin_users = get_admin_users,
                                 !.callback = callback]
        denied(events) == [call EXCEPT !.events = events, !.status = "raise",
                                       !.exc = "NotAuthorized"]
        admin_users == json_loads(get_admin_users.text)
        member == py_in(user.name, admin_users.val)
    IN  IF ~get_admin_users.ok THEN denied(<<"get_admin_users">>)
        ELSE IF ~admin_users.ok THEN denied(<<"get_admin_users">>)
        ELSE IF ~user.ok THEN denied(<<"get_admin_users", "user">>)
        ELSE IF ~member.ok THEN denied(<<"get_admin_users", "user">>)
        ELSE IF ~member.found THEN denied(<<"get_admin_users", "user">>)
        ELSE LET called == [call EXCEPT !.events = <<"get_admin_users", "user",
                                                     "callback">>]
             IN  IF callback.ok
                 THEN [called EXCEPT !.status = "return",
                                     !.value = callback.value]
                 ELSE [called EXCEPT !.status = "raise", !.exc = callback.exc]

\* ---- the inputs the gate is called with ----

\* Longest generated allow-list text, in tokens.
MaxJsonTokens == 3

ALICE  == <<"a", "l", "i", "c", "e">>
BOB    == <<"b", "o", "b">>
MALICE == <<"m", "a", "l", "i", "c", "e">>

JsonTokens ==
    {Tok("["), Tok("]"), Tok("{"), Tok("}"), Tok(","), Tok(":"), Tok("num"),
     Tok("null"), Tok("bad"), StrTok(ALICE), StrTok(BOB), StrTok(MALICE)}

\* Allow-list texts: every token sequence up to the bound, and some longer
\* lists and objects.
JsonTexts ==
    ListsUpTo(JsonTokens, MaxJsonTokens)
    \cup {<<Tok("["), StrTok(ALICE), Tok(","), StrTok(BOB), Tok("]")>>,
          <<Tok("["), StrTok(BOB), Tok(","), StrTok(MALICE), Tok("]")>>,
          <<Tok("["), StrTok(BOB), Tok(","), StrTok(ALICE), Tok(","), Tok("]")>>,
          <<Tok("["), Tok("["), StrTok(ALICE), Tok("]"), Tok("]")>>,
          <<Tok("{"), StrTok(ALICE), Tok(":"), Tok("null"), Tok("}")>>,
          <<Tok("{"), StrTok(BOB), Tok(":"), StrTok(ALICE), Tok("}")>>}

Users ==
    {[ok |-> TRUE, name |-> ALICE], [ok |-> TRUE, name |-> BOB],
     [ok |-> FALSE, name |-> <<>>]}

AdminProviders ==
    {[ok |-> TRUE, text |-> text] : text \in JsonTexts}
    \cup {[ok |-> FALSE, text |-> <<>>]}

Callbacks ==
    {[ok |-> TRUE, value |-> "admin report", exc |-> ""],
     [ok |-> FALSE, value |-> "", exc |-> "ValueError"]}

CallIsAdminUser ==
    /\ gate.op = "idle"
    /\ \E user \in Users, get_admin_users \in AdminProviders,
          callback \in Callbacks :
          gate' = is_admin_user(user, get_admin_users, callback)
    /\ UNCHANGED <<san, llm, rt, red, acl, store>>

----------------------------------------------------------------------------
(* The context reducer of query_llm for any budget: minify, keep the first *)
(* budget characters, measure what was cut.                                *)

RedIdle ==
    [op |-> "idle", context |-> NoText, budget |-> 0, percent |-> 0,
     prev_budget |-> 0, prev_percent |-> 0]

\* ---- the inputs of the reducer ----

\* The largest of the small budgets.
MaxBudget == 70

\* Lengths of the body of a document; a percentage can lie half way between
\* two hundredths only when the length is a multiple of 32.
ReducerLengths == {0, 1, 3, 32, 160}

ReducerDocuments ==
    {Run(" ", indent) \o Run("a", body) \o Run("\n", blank) \o Run("b", last) :
        indent \in {0, 2}, body \in ReducerLengths, blank \in {0, 3},
        last \in {0, 1}}

Budgets == (0..MaxBudget) \cup {159, 160, 161, max_chars}

\* The reducer measures a document under a budget.
CallReduce ==
    /\ red.op = "idle"
    /\ \E context \in ReducerDocuments, budget \in Budgets :
          red' = [RedIdle EXCEPT
                    !.op = "reduced", !.context = context, !.budget = budget,
                    !.percent = percent_truncated(minify_hcl(context), budget)]
    /\ UNCHANGED <<san, llm, rt, gate, acl, store>>

\* It measures the same document under a larger budget.
CallReduceAgain ==
    /\ red.op = "reduced"
    /\ \E budget \in Budgets :
          /\ budget > red.budget
          /\ red' = [red EXCEPT
                       !.op = "reduced_again", !.budget = budget,
                       !.percent = percent_truncated(minify_hcl(red.context),
                                                     budget),
                       !.prev_budget = red.budget,
                       !.prev_percent = red.percent]
    /\ UNCHANGED <<san, llm, rt, gate, acl, store>>

ReducerReturn ==
    /\ red.op # "idle"
    /\ red' = RedIdle
    /\ UNCHANGED <<san, llm, rt, gate, acl, store>>

NextReducer ==
    \/ CallReduce
    \/ CallReduceAgain
    \/ ReducerReturn

----------------------------------------------------------------------------
(* The allow-list kept outside the gate, and the calls of the gate whose   *)
(* provider reads it. The gate makes three calls out of itself, to the     *)
(* provider, to user and to the action; each is a step, and the stored     *)
(* list can be replaced between them.                                      *)

\* The stored allow-list, the principals let through so far, whether the
\* call in progress has read the stored list, and the list that was stored
\* when it did.
AclInit ==
    [text |-> <<Tok("["), Tok("]")>>, authorized |-> {}, read |-> FALSE,
     fetched |-> <<>>]

\* The allow-lists an administrator stores, and one that was cut short.
StoredLists ==
    {<<Tok("["), Tok("]")>>,
     <<Tok("["), StrTok(ALICE), Tok(",")>>,
     <<Tok("["), StrTok(ALICE), Tok("]")>>,
     <<Tok("["), StrTok(BOB), Tok("]")>>,
     <<Tok("["), StrTok(ALICE), Tok(","), StrTok(BOB), Tok("]")>>}

\* An administrator replaces the stored allow-list, between two calls of the
\* gate or during one.
UpdateAdminUsers ==
    /\ \E text \in StoredLists \ {acl.text} : acl' = [acl EXCEPT !.text = text]
    /\ UNCHANGED <<san, llm, rt, gate, red, store>>

\* The call after the first made of its calls out: the whole call when these
\* were all of them, and else a call in progress ("checking") that has no
\* outcome yet.
after_calls(call, made) ==
    IF made >= Len(call.events)
    THEN call
    ELSE [call EXCEPT !.op = "checking", !.events = SubSeq(call.events, 1, made),
                      !.status = "none", !.exc = "", !.value = ""]

\* The call in progress, run to its end.
whole_call(call) == is_admin_user(call.user, call.get_admin_users, call.callback)

\* The principals let through, after a step of a call.
let_through(authorized, call) ==
    IF /\ call.op = "is_admin_user"
       /\ call.events # <<>>
       /\ call.events[Len(call.events)] = "callback"
    THEN authorized \cup {call.user.name}
    ELSE authorized

\* is_admin_user is called with a provider that returns the stored
\* allow-list, or fails to reach the store: get_admin_users() and json.loads.
CallIsAdminUserStored ==
    /\ gate.op = "idle"
    /\ \E user \in Users, callback \in Callbacks,
          get_admin_users \in {[ok |-> TRUE, text |-> acl.text],
                               [ok |-> FALSE, text |-> <<>>]} :
          LET call == after_calls(is_admin_user(user, get_admin_users,
                                                callback), 1)
          IN  /\ gate' = call
              /\ acl' = [acl EXCEPT !.read = TRUE, !.fetched = acl.text,
                                    !.authorized = let_through(@, call)]
    /\ UNCHANGED <<san, llm, rt, red, store>>

\* The call in progress calls user() and tests the membership.
CallUser ==
    /\ gate.op = "checking"
    /\ Len(gate.events) = 1
    /\ LET call == after_calls(whole_call(gate), 2)
       IN  /\ gate' = call
           /\ acl' = [acl EXCEPT !.authorized = let_through(@, call)]
    /\ UNCHANGED <<san, llm, rt, red, store>>

\* The call in progress calls callback().
CallCallback ==
    /\ gate.op = "checking"
    /\ Len(gate.events) = 2
    /\ LET call == after_calls(whole_call(gate), 3)
       IN  /\ gate' = call
           /\ acl' = [acl EXCEPT !.authorized = let_through(@, call)]
    /\ UNCHANGED <<san, llm, rt, red, store>>

GateReturn ==
    /\ gate.op = "is_admin_user"
    /\ gate' = GateIdle
    /\ acl' = [acl EXCEPT !.read = FALSE, !.fetched = <<>>]
    /\ UNCHANGED <<san, llm, rt, red, store>>

NextGate ==
    \/ CallIsAdminUser
    \/ GateReturn

NextGateStore ==
    \/ CallIsAdminUserStored
    \/ CallUser
    \/ CallCallback
    \/ UpdateAdminUsers
    \/ GateReturn

----------------------------------------------------------------------------
(* infrastructure/users.py: the users and userlogin tables, the one-time   *)
(* login tokens and the linking of a user's Octopus URL and API key. The   *)
(* functions are called by concurrent requests; every request a function   *)
(* sends to a table is a step of its own, and the steps of other calls     *)
(* come between the requests of a call.                                    *)

PARTITION_KEY == "github.com"

\* ---- the table client ----

\* table_client.upsert_entity(entity)
upsert_entity(table, entity) ==
    {e \in table : ~(/\ e.PartitionKey = entity.PartitionKey
                     /\ e.RowKey = entity.RowKey)} \cup {entity}

\* table_client.get_entity(partition_key, row_key): the entity, or not ok for
\* a ResourceNotFoundError.
get_entity(table, partition_key, row_key) ==
    LET found == {e \in table : /\ e.PartitionKey = partition_key
                                /\ e.RowKey = row_key}
    IN  IF found # {}
        THEN [ok |-> TRUE, entity |-> CHOOSE e \in found : TRUE]
        ELSE [ok |-> FALSE, entity |-> [PartitionKey |-> "", RowKey |-> <<>>]]

\* table_client.delete_entity(*args): with a partition key and a row key the
\* entity is removed; with one str the keys of the entity are not known, the
\* call raises (arity is the error the client raises for it: IndexError, or
\* TypeError, depending on its version) and the table is as it was.
delete_entity(table, args, arity) ==
    IF Len(args) = 2
    THEN [ok |-> TRUE, exc |-> "",
          table |-> {e \in table : ~(/\ e.PartitionKey = args[1]
                                     /\ e.RowKey = args[2])}]
    ELSE [ok |-> FALSE, exc |-> arity, table |-> table]

\* not value or not isinstance(value, str) or not value.strip(), for a str
is_blank(value) == strip(value) = <<>>

\* ---- the calls ----

Procs == {"p1", "p2"}

\* A call of a process: the function, the request it sends next, its
\* arguments (connection_string is TRUE when a function is passed and FALSE
\* when it is None), its local variables, the requests sent and the outcome.
CallIdle ==
    [op |-> "idle", pc |-> "idle", username |-> <<>>, state |-> <<>>,
     url |-> <<>>, api |-> <<>>, connection_string |-> TRUE, rows |-> {},
     sent |-> <<>>, wrote |-> {}, status |-> "none", exc |-> "",
     value |-> <<>>]

\* The tables, the number of tokens issued, every linking record written so
\* far, and the call of each process.
StoreInit ==
    [userlogin |-> {}, users |-> {}, issued |-> 0, links |-> {},
     calls |-> [p \in Procs |-> CallIdle]]

returned(call) == [call EXCEPT !.pc = "done", !.status = "return"]
raised(call, exc) == [call EXCEPT !.pc = "done", !.status = "raise", !.exc = exc]

\* The checks of the arguments of save_users_octopus_url.
invalid_user(username, octopus_url, api_key, connection_string) ==
    \/ is_blank(username)
    \/ is_blank(octopus_url)
    \/ is_blank(api_key)
    \/ ~connection_string

\* The entity save_users_octopus_url writes.
user_entity(username, octopus_url, api_key) ==
    [PartitionKey |-> PARTITION_KEY, RowKey |-> username,
     OctopusUrl |-> octopus_url, OctopusApiKey |-> api_key]

\* save_users_octopus_url(username, octopus_url, api_key, connection_string),
\* called by process p: the checks, and the one request to the users table.
save_users_octopus_url(st, p, username, octopus_url, api_key, connection_string) ==
    LET call == [CallIdle EXCEPT !.op = "save_users_octopus_url",
                                 !.username = username, !.url = octopus_url,
                                 !.api = api_key,
                                 !.connection_string = connection_string]
        user == user_entity(username, octopus_url, api_key)
    IN  IF invalid_user(username, octopus_url, api_key, connection_string)
        THEN [st EXCEPT !.calls[p] = raised(call, "ValueError")]
        ELSE [st EXCEPT !.users = upsert_entity(st.users, user),
                        !.calls[p] = returned([call EXCEPT
                                                 !.sent = <<"upsert:users">>,
                                                 !.wrote = {username}])]

\* save_login_uuid(username, connection_string), called by process p:
\* login_uuid is the value of str(uuid.uuid4()).
save_login_uuid(st, p, username, connection_string, login_uuid) ==
    LET call == [CallIdle EXCEPT !.op = "save_login_uuid",
                                 !.username = username,
                                 !.connection_string = connection_string]
        user == [PartitionKey |-> PARTITION_KEY, RowKey |-> login_uuid,
                 Username |-> username]
    IN  IF is_blank(username) \/ ~connection_string
        THEN [st EXCEPT !.calls[p] = raised(call, "ValueError")]
        ELSE [st EXCEPT !.userlogin = upsert_entity(st.userlogin, user),
                        !.links = st.links \cup {user},
                        !.issued = st.issued + 1,
                        !.calls[p] = returned([call EXCEPT
                                                 !.sent = <<"upsert:userlogin">>,
                                                 !.value = login_uuid])]

\* save_users_octopus_url_from_login(state, url, api, connection_string),
\* called by process p, up to its first request and the checks that follow
\* it: get_entity on userlogin (fetch is whether the request is answered; it
\* fails with an HttpResponseError otherwise), then the checks of
\* save_users_octopus_url. An error in the try block is kept until the
\* finally block has run.
save_users_octopus_url_from_login(st, p, state, url, api, connection_string, fetch) ==
    LET call == [CallIdle EXCEPT
                   !.op = "save_users_octopus_url_from_login",
                   !.state = state, !.url = url, !.api = api,
                   !.connection_string = connection_string]
        asked == [call EXCEPT !.sent = <<"get:userlogin">>]
        failed(exc) == [asked EXCEPT !.pc = "finally", !.status = "raise",
                                     !.exc = exc]
        login == get_entity(st.userlogin, PARTITION_KEY, state)
        username == login.entity.Username
    IN  IF is_blank(state) \/ ~connection_string
        THEN [st EXCEPT !.calls[p] = raised(call, "ValueError")]
        ELSE IF ~fetch
        THEN [st EXCEPT !.calls[p] = failed("HttpResponseError")]
        ELSE IF ~login.ok
        THEN [st EXCEPT !.calls[p] = failed("ResourceNotFoundError")]
        ELSE IF invalid_user(username, url, api, connection_string)
        THEN [st EXCEPT !.calls[p] = [failed("ValueError") EXCEPT
                                        !.username = username]]
        ELSE [st EXCEPT !.calls[p] = [asked EXCEPT !.pc = "upsert_entity",
                                                   !.username = username]]

\* The request of save_users_octopus_url that process p sends from within
\* save_users_octopus_url_from_login.
upsert_from_login(st, p) ==
    LET call == st.calls[p]
        user == user_entity(call.username, call.url, call.api)
    IN  [st EXCEPT !.users = upsert_entity(st.users, user),
                   !.calls[p] = [call EXCEPT
                                   !.pc = "finally",
                                   !.sent = Append(call.sent, "upsert:users"),
                                   !.wrote = {call.username},
                                   !.status = "return"]]

\* The finally block of save_users_octopus_url_from_login:
\* table_client.delete_entity(state). An error raised in it is the error of
\* the call.
finally_from_login(st, p, arity) ==
    LET call == st.calls[p]
        cleaned == delete_entity(st.userlogin, <<call.state>>, arity)
        sent == Append(call.sent, "delete:userlogin")
    IN  [st EXCEPT
           !.userlogin = cleaned.table,
           !.calls[p] = IF cleaned.ok
                        THEN [call EXCEPT !.pc = "done", !.sent = sent]
                        ELSE [raised(call, cleaned.exc) EXCEPT !.sent = sent]]

\* delete_old_user_details(connection_string), called by process p, up to its
\* first request: query_entities on users. rows are the row keys of the
\* entities the query finds older than thirty days; an HttpResponseError is
\* logged and the call returns.
delete_old_user_details(st, p, connection_string, fetch, rows) ==
    LET call == [CallIdle EXCEPT !.op = "delete_old_user_details",
                                 !.connection_string = connection_string]
        asked == [call EXCEPT !.sent = <<"query:users">>]
    IN  IF ~connection_string
        THEN [st EXCEPT !.calls[p] = raised(call, "ValueError")]
        ELSE IF ~fetch \/ rows = {}
        THEN [st EXCEPT !.calls[p] = returned(asked)]
        ELSE [st EXCEPT !.calls[p] = [asked EXCEPT !.pc = "delete_entity",
                                                   !.rows = rows]]

\* A turn of the loop of delete_old_user_details:
\* table_client.delete_entity("github.com", row['RowKey']).
delete_old_user_row(st, p, row_key) ==
    LET call == st.calls[p]
        cleaned == delete_entity(st.users, <<PARTITION_KEY, row_key>>, "")
        rest == call.rows \ {row_key}
        after == [call EXCEPT !.rows = rest,
                              !.sent = Append(call.sent, "delete:users")]
    IN  [st EXCEPT !.users = cleaned.table,
                   !.calls[p] = IF rest = {} THEN returned(after) ELSE after]

\* ---- the inputs of the store ----

\* How many login tokens are issued.
MaxTokens == 2

Digits == <<"1", "2", "3", "4", "5", "6", "7", "8", "9">>

\* The tokens uuid4 gives, each one new.
Token(i) == <<"u", Digits[i]>>

UNKNOWN_TOKEN == <<"u", "0">>

Usernames == {ALICE, BOB, <<" ">>}

URL_A == <<"h", "t", "t", "p", "s", ":", "/", "/", "a">>
URL_B == <<"h", "t", "t", "p", "s", ":", "/", "/", "b">>
Urls  == {URL_A, URL_B, <<>>}

API_KEY == <<"A", "P", "I", "-", "1">>
ApiKeys == {API_KEY, <<" ">>}

\* The values of state a caller has: the tokens issued so far, one that was
\* never issued, a blank one.
States(issued) == {Token(i) : i \in 1..issued} \cup {UNKNOWN_TOKEN, <<>>}

\* The arguments of save_login_uuid: valid ones, and one for each check.
LoginArguments ==
    {[username |-> u, connection_string |-> TRUE] : u \in Usernames}
    \cup {[username |-> ALICE, connection_string |-> FALSE]}

\* The URL and the key of a call: valid ones, a blank URL, a blank key.
Credentials ==
    {[url |-> url, api |-> api] : url \in Urls, api \in ApiKeys}
    \ {[url |-> <<>>, api |-> <<" ">>], [url |-> URL_B, api |-> <<" ">>]}

\* The arguments of save_users_octopus_url: valid ones, and one for each
\* check.
UserArguments ==
    {[username |-> u, url |-> c.url, api |-> c.api, connection_string |-> TRUE] :
        u \in {ALICE, BOB}, c \in {c \in Credentials : ~is_blank(c.url) /\ ~is_blank(c.api)}}
    \cup {[username |-> ALICE, url |-> c.url, api |-> c.api, connection_string |-> TRUE] :
            c \in {c \in Credentials : is_blank(c.url) \/ is_blank(c.api)}}
    \cup {[username |-> <<" ">>, url |-> URL_A, api |-> API_KEY, connection_string |-> TRUE],
          [username |-> ALICE, url |-> URL_A, api |-> API_KEY, connection_string |-> FALSE]}

\* The arguments of save_users_octopus_url_from_login: a token that was
\* issued or not with every URL and key, and one for each check.
FromLoginArguments(issued) ==
    {[state |-> s, url |-> c.url, api |-> c.api, connection_string |-> TRUE] :
        s \in States(issued) \ {<<>>}, c \in Credentials}
    \cup {[state |-> <<>>, url |-> URL_A, api |-> API_KEY, connection_string |-> TRUE],
          [state |-> UNKNOWN_TOKEN, url |-> URL_A, api |-> API_KEY, connection_string |-> FALSE]}

DeleteArityErrors == {"IndexError", "TypeError"}

CallSaveLoginUuid ==
    /\ store.issued < MaxTokens
    /\ \E p \in Procs, a \in LoginArguments :
          /\ store.calls[p].op = "idle"
          /\ store' = save_login_uuid(store, p, a.username, a.connection_string,
                                      Token(store.issued + 1))
    /\ UNCHANGED <<san, llm, rt, gate, red, acl>>

CallSaveUsersOctopusUrl ==
    /\ \E p \in Procs, a \in UserArguments :
          /\ store.calls[p].op = "idle"
          /\ store' = save_users_octopus_url(store, p, a.username, a.url, a.api,
                                             a.connection_string)
    /\ UNCHANGED <<san, llm, rt, gate, red, acl>>

CallSaveUsersOctopusUrlFromLogin ==
    /\ \E p \in Procs, a \in FromLoginArguments(store.issued), fetch \in BOOLEAN :
          /\ store.calls[p].op = "idle"
          /\ store' = save_users_octopus_url_from_login(store, p, a.state, a.url,
                                                        a.api,
                                                        a.connection_string,
                                                        fetch)
    /\ UNCHANGED <<san, llm, rt, gate, red, acl>>

UpsertFromLogin ==
    /\ \E p \in Procs :
          /\ store.calls[p].op = "save_users_octopus_url_from_login"
          /\ store.calls[p].pc = "upsert_entity"
          /\ store' = upsert_from_login(store, p)
    /\ UNCHANGED <<san, llm, rt, gate, red, acl>>

FinallyFromLogin ==
    /\ \E p \in Procs, arity \in DeleteArityErrors :
          /\ store.calls[p].op = "save_users_octopus_url_from_login"
          /\ store.calls[p].pc = "finally"
          /\ store' = finally_from_login(store, p, arity)
    /\ UNCHANGED <<san, llm, rt, gate, red, acl>>

CallDeleteOldUserDetails ==
    /\ \E p \in Procs, connection_string \in BOOLEAN, fetch \in BOOLEAN,
          rows \in SUBSET {e.RowKey : e \in store.users} :
          /\ store.calls[p].op = "idle"
          /\ store' = delete_old_user_details(store, p, connection_string,
                                              fetch, rows)
    /\ UNCHANGED <<san, llm, rt, gate, red, acl>>

DeleteOldUserRow ==
    /\ \E p \in Procs :
          /\ store.calls[p].op = "delete_old_user_details"
          /\ store.calls[p].pc = "delete_entity"
          /\ \E row_key \in store.calls[p].rows :
                store' = delete_old_user_row(store, p, row_key)
    /\ UNCHANGED <<san, llm, rt, gate, red, acl>>

StoreReturn ==
    /\ \E p \in Procs :
          /\ store.calls[p].pc = "done"
          /\ store' = [store EXCEPT !.calls[p] = CallIdle]
    /\ UNCHANGED <<san, llm, rt, gate, red, acl>>

NextStore ==
    \/ CallSaveLoginUuid
    \/ CallSaveUsersOctopusUrl
    \/ CallSaveUsersOctopusUrlFromLogin
    \/ UpsertFromLogin
    \/ FinallyFromLogin
    \/ CallDeleteOldUserDetails
    \/ DeleteOldUserRow
    \/ StoreReturn

----------------------------------------------------------------------------
Init ==
    /\ san = SanIdle
    /\ llm = LlmIdle
    /\ rt = RtIdle
    /\ gate = GateIdle
    /\ red = RedIdle
    /\ acl = AclInit
    /\ store = StoreInit

SpecSanitizer == Init /\ [][NextSanitizer]_vars

SpecLlm == Init /\ [][NextLlm]_vars

SpecRouter == Init /\ [][NextRouter]_vars

SpecGate == Init /\ [][NextGate]_vars

SpecGateStore == Init /\ [][NextGateStore]_vars

SpecStore == Init /\ [][NextStore]_vars

SpecReducer == Init /\ [][NextReducer]_vars

----------------------------------------------------------------------------
(* Properties of query_llm, checked under SpecLlm.                         *)

\* C1: in every call of query_llm, a computed truncated_percent above 0 makes
\* the call return exactly the too-broad message without invoking the model,
\* and a computed truncated_percent of 0 makes it invoke the model with the
\* complete minified text.
C1_RefusalGating ==
    llm.op = "query_llm" =>
        /\ llm.percent > 0 =>
              /\ llm.status = "return"
              /\ llm.value = TOO_BROAD
              /\ ~llm.invoked
        /\ llm.percent = 0 =>
              /\ llm.invoked
              /\ llm.invoked_context = minify_hcl(llm.context)

\* C2: a document whose minified text is longer than max_chars, by one
\* character or more, gets a truncated_percent above 0 and the too-broad
\* message as the response.
C2_OverBudgetRefused ==
    (llm.op = "query_llm" /\ text_len(minify_hcl(llm.context)) > max_chars) =>
        /\ llm.percent > 0
        /\ llm.status = "return"
        /\ llm.value = TOO_BROAD

----------------------------------------------------------------------------
(* Properties of the tool router, checked under SpecRouter.                *)

RegisteredNames == {f.name : f \in FunctionDefinitions}

\* C3: when the selection model selects no tool, or a tool that is not
\* registered, handle_copilot_tools_execution does not raise and returns an
\* action with empty arguments whose invocation returns the no-function
\* response.
C3_NoMatchFallback ==
    (/\ rt.op \in {"routed", "invoked"}
     /\ strip(rt.query) # <<>>
     /\ rt.llm_tools
     /\ \/ rt.plan.kind = "finish"
        \/ rt.plan.kind = "action" /\ rt.plan.tool \notin RegisteredNames) =>
        /\ rt.status = "return"
        /\ rt.result.function_args = {}
        /\ rt.op = "invoked" =>
              /\ rt.call.status = "return"
              /\ rt.call.value = NO_FUNCTION_RESPONSE

\* C4: with a blank query, and also with no tool provider, the call fails
\* with InvalidArgument before the provider is called, an agent is built or
\* the model is called.
C4_InvalidArgumentFirst ==
    (rt.op = "routed" /\ (strip(rt.query) = <<>> \/ ~rt.llm_tools)) =>
        /\ rt.status = "raise"
        /\ rt.exc = "InvalidArgument"
        /\ rt.provider_calls = 0
        /\ ~rt.agent_built
        /\ rt.model_calls = 0

\* C10: a registered tool handler invoked with its declared arguments and
\* further named arguments does not fail: it ignores the further ones and its
\* callback receives the declared ones.
C10_UnknownArgumentsIgnored ==
    (/\ rt.op = "invoked"
     /\ rt.result.function \in FunctionDefinitions
     /\ rt.result.function.params \subseteq rt.result.function_args
     /\ rt.result.function_args # rt.result.function.params) =>
        /\ rt.call.status = "return"
        /\ rt.call.received = rt.result.function.params

----------------------------------------------------------------------------
(* Properties of the authorization gate, checked under SpecGate.           *)

\* The text is a JSON array of string literals: "[", literals separated by
\* ",", "]".
IsStringArrayText(text) ==
    /\ Len(text) >= 2
    /\ text[1].t = "["
    /\ text[Len(text)].t = "]"
    /\ Len(text) = 2 \/ Len(text) % 2 = 1
    /\ \A i \in 2..(Len(text) - 1) :
          IF i % 2 = 0 THEN text[i].t = "str" ELSE text[i].t = ","

\* The strings of such an array.
ArrayNames(text) ==
    {text[i].s : i \in {j \in 2..(Len(text) - 1) : j % 2 = 0}}

\* C5: with an allow-list that is a JSON array of strings, is_admin_user
\* returns the result of the action when the principal is in the list and
\* raises NotAuthorized when it is not; when the provider or the principal
\* function fails, or the allow-list is malformed JSON, it raises
\* NotAuthorized and nothing else.
C5_AdminGate ==
    gate.op = "is_admin_user" =>
        LET text == gate.get_admin_users.text
        IN  /\ (/\ gate.get_admin_users.ok
                /\ gate.user.ok
                /\ IsStringArrayText(text)) =>
                  IF gate.user.name \in ArrayNames(text)
                  THEN gate.callback.ok =>
                          /\ gate.status = "return"
                          /\ gate.value = gate.callback.value
                  ELSE /\ gate.status = "raise"
                       /\ gate.exc = "NotAuthorized"
            /\ (\/ ~gate.get_admin_users.ok
                \/ ~gate.user.ok
                \/ ~json_loads(text).ok) =>
                  /\ gate.status = "raise"
                  /\ gate.exc = "NotAuthorized"

\* A principal of a two-name allow-list was let through and got the result
\* of the action.
C5_Witness ==
    /\ gate.op = "is_admin_user"
    /\ gate.get_admin_users.ok
    /\ gate.get_admin_users.text =
          <<Tok("["), StrTok(ALICE), Tok(","), StrTok(BOB), Tok("]")>>
    /\ gate.user = [ok |-> TRUE, name |-> BOB]
    /\ gate.status = "return"
    /\ gate.value = "admin report"

----------------------------------------------------------------------------
(* Properties of the sanitizers, checked under SpecSanitizer.              *)

\* C6: for a single string, a sanitizer returns the trimmed string alone when
\* it is not blank and the ignore pattern does not match its start, and an
\* empty sequence otherwise.
C6_SingleString ==
    (san.fn \in {"sanitize_list"} \cup KindSanitizers /\ san.raw.kind = "str") =>
        /\ san.out.status = "return"
        /\ san.out.val =
              IF strip(san.raw.s) # <<>> /\ ~has_prefix(san.raw.s, san.re)
              THEN <<strip(san.raw.s)>>
              ELSE <<>>

\* C7: each entity-kind sanitizer returns an empty sequence for a placeholder
\* of its kind, given alone or as the only entry of a list, and the plain
\* sequence ["Deploy WebApp"] for "Deploy WebApp".
C7_KindPlaceholders ==
    san.fn \in KindSanitizers =>
        /\ (\E p \in Placeholders(san.fn) :
               san.raw \in {StrArg(p), ListArg(<<StrEntry(p)>>)}) =>
              san.out = Returned(<<>>)
        /\ san.raw \in {StrArg(DEPLOY_WEBAPP), ListArg(<<StrEntry(DEPLOY_WEBAPP)>>)} =>
              san.out = Returned(<<DEPLOY_WEBAPP>>)

\* C8: sanitizing the output of sanitize_list again, with the same pattern,
\* gives the same sequence.
C8_Idempotent ==
    san.fn = "sanitize_list_again" => san.out = san.first

\* The input is not a string or a list of strings.
Malformed(raw) ==
    \/ raw.kind \in {"none", "int"}
    \/ raw.kind = "list" /\ \E i \in 1..Len(raw.l) : ~raw.l[i].isStr

\* C9: sanitize_list never raises: every call returns a sequence, an empty
\* one for malformed input.
C9_NeverRaises ==
    san.fn # "idle" =>
        /\ san.out.status = "return"
        /\ Malformed(san.raw) => san.out.val = <<>>

----------------------------------------------------------------------------
(* Properties of the query logger and of the prompt, checked under         *)
(* SpecLlm.                                                                *)

\* What the caller and the model see of a call.
Outcome(call) ==
    [status |-> call.status, exc |-> call.exc, value |-> call.value,
     invoked |-> call.invoked, invoked_context |-> call.invoked_context]

\* C11: every call of query_llm and of handle_configuration_query has the
\* outcome (returned text or error, invocation of the model) of the same
\* call made with the other choice of logger: one supplied, or None.
C11_LoggerEquivalence ==
    /\ llm.op = "query_llm" =>
          Outcome(llm) =
             Outcome(query_llm(llm.message_prompt, llm.context, llm.query,
                               ~llm.log_query, llm.reply))
    /\ llm.op = "handle_configuration_query" =>
          Outcome(llm) =
             Outcome(handle_configuration_query(llm.query, llm.space_name,
                                                llm.space, ~llm.log_query,
                                                llm.step_by_step, llm.reply))

Personas == {VERBOSE_PERSONA, CONCISE_PERSONA}

\* The positions of a message in a prompt.
Positions(prompt, message) == {i \in 1..Len(prompt) : prompt[i] = message}

\* C13: the prompt handle_configuration_query builds starts with a persona,
\* followed in this order by the domain instruction, the query placeholder,
\* the instruction to answer from the HCL and the fenced context placeholder;
\* it has one persona, the verbose one with step_by_step and the concise one
\* without; and the step-by-step cue is in it, as its last message, exactly
\* when step_by_step is true.
C13_PromptSkeleton ==
    (llm.op = "handle_configuration_query" /\ llm.message_prompt # <<>>) =>
        LET prompt == llm.message_prompt
        IN  /\ prompt[1] = IF llm.step_by_step THEN VERBOSE_PERSONA
                                               ELSE CONCISE_PERSONA
            /\ \E i, j, k, l \in 2..Len(prompt) :
                  /\ i < j /\ j < k /\ k < l
                  /\ prompt[i] = DOMAIN_INSTRUCTION
                  /\ prompt[j] = INPUT_MESSAGE
                  /\ prompt[k] = ANSWER_MESSAGE
                  /\ prompt[l] = CONTEXT_MESSAGE
            /\ Cardinality({i \in 1..Len(prompt) : prompt[i] \in Personas}) = 1
            /\ llm.step_by_step <=> Positions(prompt, STEP_BY_STEP_CUE) # {}
            /\ Positions(prompt, STEP_BY_STEP_CUE) \subseteq {Len(prompt)}

\* A step-by-step query was put to the model with the prompt built for it.
C13_Witness ==
    /\ llm.op = "handle_configuration_query"
    /\ llm.step_by_step
    /\ llm.invoked
    /\ llm.status = "return"
    /\ Len(llm.message_prompt) = 6

----------------------------------------------------------------------------
(* Properties of the context reducer, checked under SpecReducer.           *)

\* C12: for a fixed document the truncated percentage measured under a larger
\* budget is not above the one measured under the smaller budget; it is 0
\* under every budget of at least the length of the minified text, and 0 when
\* the minified text is empty.
C12_TruncationMonotone ==
    LET full == text_len(minify_hcl(red.context))
    IN  /\ red.op = "reduced_again" => red.percent <= red.prev_percent
        /\ (red.op # "idle" /\ red.budget >= full) => red.percent = 0
        /\ (red.op # "idle" /\ full = 0) => red.percent = 0

\* A text of 160 characters was cut at 67 characters, where the percentage
\* lies half way between 58.12 and 58.13, and then at more characters, with
\* a smaller percentage above 0.
C12_Witness ==
    /\ red.op = "reduced_again"
    /\ text_len(minify_hcl(red.context)) = 160
    /\ red.prev_budget = 67
    /\ red.prev_percent = 5813
    /\ red.percent > 0
    /\ red.percent < red.prev_percent

----------------------------------------------------------------------------
(* Properties of the gate over its calls, checked under SpecGateStore and  *)
(* SpecGate.                                                               *)

\* How many times a call was made.
Count(events, name) == Cardinality({i \in 1..Len(events) : events[i] = name})

\* C14: a call of is_admin_user calls the allow-list provider once, before
\* anything else, and decides on the list that was stored when it did: a
\* principal let through earlier and not in that list is denied.
\* The action is called once, last, when the principal is let through, and
\* not at all when the call is denied; what the action returns or raises is
\* what the call returns or raises.
C14_OneShotGate ==
    gate.op = "is_admin_user" =>
        LET events == gate.events
            authorized == Count(events, "callback") > 0
        IN  /\ Count(events, "get_admin_users") = 1
            /\ events[1] = "get_admin_users"
            /\ Count(events, "callback") <= 1
            /\ authorized => events[Len(events)] = "callback"
            /\ ~authorized => gate.status = "raise" /\ gate.exc = "NotAuthorized"
            /\ (authorized /\ gate.callback.ok) =>
                  gate.status = "return" /\ gate.value = gate.callback.value
            /\ (authorized /\ ~gate.callback.ok) =>
                  gate.status = "raise" /\ gate.exc = gate.callback.exc
            /\ (acl.read /\ gate.get_admin_users.ok) =>
                  /\ gate.get_admin_users.text = acl.fetched
                  /\ authorized <=> (/\ gate.user.ok
                                     /\ json_loads(acl.fetched).ok
                                     /\ gate.user.name \in ArrayNames(acl.fetched))

\* A principal that was let through earlier is denied once the stored list no
\* longer has it, also when the list has it again before the call ends.
C14_Witness ==
    /\ gate.op = "is_admin_user"
    /\ acl.read
    /\ gate.user = [ok |-> TRUE, name |-> ALICE]
    /\ ALICE \in acl.authorized
    /\ acl.fetched = <<Tok("["), StrTok(BOB), Tok("]")>>
    /\ acl.text = <<Tok("["), StrTok(ALICE), Tok("]")>>
    /\ gate.events = <<"get_admin_users", "user">>
    /\ gate.status = "raise"
    /\ gate.exc = "NotAuthorized"

\* C15: the action is called only when the output of the allow-list provider
\* parses as a JSON array that has the principal as an element; with any
\* other JSON value the call raises NotAuthorized and the action is not
\* called.
C15_OnlyArraysAuthorize ==
    gate.op = "is_admin_user" =>
        LET admin_users == json_loads(gate.get_admin_users.text)
            listed == /\ gate.get_admin_users.ok
                      /\ admin_users.ok
                      /\ admin_users.val.k = "list"
                      /\ \E i \in 1..Len(admin_users.val.items) :
                            admin_users.val.items[i] = PyStr(gate.user.name)
        IN  /\ Count(gate.events, "callback") > 0 => listed
            /\ (gate.get_admin_users.ok /\ admin_users.ok
                  /\ admin_users.val.k # "list") =>
                  /\ gate.status = "raise"
                  /\ gate.exc = "NotAuthorized"
                  /\ Count(gate.events, "callback") = 0

----------------------------------------------------------------------------
(* Properties of the login tokens, checked under SpecStore.                *)

\* C16: when a call of save_users_octopus_url_from_login has finished for a
\* token, having saved the URL and the key or having failed, the userlogin
\* table has no record with that token as its row key; and the users record
\* the call wrote, if any, is the one of the username that was stored under
\* the token.
C16_OneTimeTokens ==
    \A p \in Procs :
       LET call == store.calls[p]
       IN  (/\ call.op = "save_users_octopus_url_from_login"
            /\ call.pc = "done"
            /\ ~is_blank(call.state)
            /\ call.connection_string) =>
               /\ \A e \in store.userlogin : e.RowKey # call.state
               /\ \A username \in call.wrote :
                     \E e \in store.links : /\ e.RowKey = call.state
                                            /\ e.Username = username

====
